---- MODULE Spec2Model ----
(***************************************************************************)
(* The transfer rendezvous and streaming relay of src/src/ws.rs:           *)
(* handle_sender, relay_data and handle_receiver running as concurrent     *)
(* tasks over the shared transfer registry (state.transfers), together     *)
(* with the cleaner task of src/src/main.rs.                               *)
(*                                                                         *)
(* A step of the model is what one task does between two operations on     *)
(* shared state (the registry, a one-shot, a data queue, a cancel channel);*)
(* writes to the task's own socket are folded into the step they follow.   *)
(* tokio::select! is a free choice among the branches that are ready.      *)
(***************************************************************************)
EXTENDS Integers, Sequences, FiniteSets, TLC

\* ------------------------------------------------------------------ bounds
MaxFrames == 2          \* binary frames a sender client emits in total
MaxOffset == 1          \* largest resume_offset a recipient supplies
QueueCap == 1           \* capacity of a data queue (CHANNEL_BUFFER, scaled)

Senders == {"s1", "s2"}
Ids == {"i1", "i2"}
Recipients == {"r1", "r2"}
NoRecipient == "none"

\* ------------------------------------------------------------------ state
VARIABLES
  registry,   \* state.transfers: id -> entry
  spc,        \* handle_sender: where each sender task stands
  sid,        \* the id the sender generated
  smeta,      \* the FileMetadata the sender holds
  round,      \* how many one-shots the sender has created
  os,         \* the state of the sender's current one-shot
  oslink,     \* the recipient whose RecipientLink sits in the one-shot
  att,        \* the recipient whose data_tx / cancel_rx the sender holds
  pend,       \* the RelayMessage a blocked data_tx.send is holding
  timer,      \* the reconnect sleep: off, running, fired
  sIn,        \* frames in flight on the sender socket, client -> relay
  sOut,       \* text frames the relay has written to the sender socket
  cst,        \* the sender client: new, idle, streaming, finished, closed
              \* (it closed its socket) or cut (the relay dropped the socket)
  cpos,       \* the stream position of the client's next binary frame
  cep,        \* how many start / resume frames the client has received
  cIn,        \* start / paused / resume frames in flight to the client
  emitted,    \* binary frames the client has emitted
  junk,       \* whether the client has emitted its pong
  rpc,        \* handle_receiver: where each recipient task stands
  rid,        \* the id in the recipient's path
  roff,       \* the resume_offset in the recipient's query
  rtx,        \* the one-shot producer the recipient took with the entry
  dq,         \* the data queue of the recipient's link
  dtx,        \* whether the queue's producer (data_tx) is still alive
  csig,       \* whether a unit sits in the cancel channel
  rsock,      \* the recipient client's end of the socket: open, closed (by
              \* the client) or cut (the relay dropped the socket)
  rOut,       \* frames the relay has written to the recipient socket
  pumped,     \* binary frames relay_data read while attached to the recipient
  early,      \* the claim took a Reconnecting entry before the sleep fired
  lapsed,     \* the round whose sleep fired while no link was published
  disk,       \* the staged files of one transfer id: its manifest, chunk
              \* directory and their temporary twins
  now,        \* unix_now(), in seconds
  resp        \* the answer of download_blob: none yet, 404 or 200

senderVars == <<spc, sid, smeta, round, os, oslink, att, pend, timer>>
sockVars == <<sIn, sOut, cIn>>
clientVars == <<cst, cpos, cep, emitted, junk>>
recipVars == <<rpc, rid, roff, rtx, dq, dtx, csig, rsock, rOut>>
ghostVars == <<pumped, early, lapsed>>
stagingVars == <<disk, now, resp>>
vars == <<registry, senderVars, sockVars, clientVars, recipVars, ghostVars,
          stagingVars>>

\* ------------------------------------------------------------------ values
\* A frame or message: kind, text payload, stream position / offset, epoch.
Frame(k, v, pos, ep) == [k |-> k, v |-> v, pos |-> pos, ep |-> ep]
Ctl(k) == Frame(k, "", 0, 0)

NoTx == [s |-> "none", k |-> 0]
Absent == [st |-> "Absent", meta |-> "", tx |-> NoTx]
\* TransferState::WaitingForRecipient { metadata, recipient_tx }
WaitingForRecipient(m, s, k) == [st |-> "Waiting", meta |-> m, tx |-> [s |-> s, k |-> k]]
\* TransferState::Reconnecting { metadata, recipient_tx }
Reconnecting(m, s, k) == [st |-> "Reconnecting", meta |-> m, tx |-> [s |-> s, k |-> k]]
\* TransferState::Active
Active == [st |-> "Active", meta |-> "", tx |-> NoTx]

\* TransferState::Done
Done == [st |-> "Done", meta |-> "", tx |-> NoTx]

\* What the manifest path of the id holds: nothing, text that
\* FileManifest::parse rejects, or a manifest. Of FileManifest the fields
\* download_blob reads are kept.
NoFile == [kind |-> "missing", complete |-> FALSE, received_size |-> 0,
           size |-> 0, expires_at_unix |-> 0]
Garbled == [kind |-> "garbled", complete |-> FALSE, received_size |-> 0,
            size |-> 0, expires_at_unix |-> 0]
FileManifest(c, r, z, e) ==
  [kind |-> "manifest", complete |-> c, received_size |-> r, size |-> z,
   expires_at_unix |-> e]
\* Option::None of load_manifest
NoManifest == [kind |-> "none", complete |-> FALSE, received_size |-> 0,
               size |-> 0, expires_at_unix |-> 0]
\* No file of the id is on disk.
EmptyDisk == [manifest |-> NoFile, manifest_tmp |-> FALSE,
              chunks |-> FALSE, chunks_tmp |-> FALSE]

ErrNotFound == "Transfer not found or already claimed"
ErrSenderGone == "Sender disconnected"
ErrRecipientGone == "Recipient disconnected"
\* format!("Invalid metadata: {e}"): the parser's message is left out.
ErrInvalid == "Invalid metadata"

\* ------------------------------------------------------------------ Init
\* No handler has run yet.
InitTasks ==
  /\ sid = [s \in Senders |-> "none"]
  /\ smeta = [s \in Senders |-> ""]
  /\ round = [s \in Senders |-> 0]
  /\ os = [s \in Senders |-> "none"]
  /\ oslink = [s \in Senders |-> NoRecipient]
  /\ att = [s \in Senders |-> NoRecipient]
  /\ pend = [s \in Senders |-> Ctl("none")]
  /\ timer = [s \in Senders |-> "off"]
  /\ sOut = [s \in Senders |-> <<>>]
  /\ cpos = [s \in Senders |-> 0]
  /\ cep = [s \in Senders |-> 0]
  /\ emitted = [s \in Senders |-> 0]
  /\ junk = [s \in Senders |-> FALSE]
  /\ cIn = [s \in Senders |-> <<>>]
  /\ rpc = [r \in Recipients |-> "idle"]
  /\ rid = [r \in Recipients |-> "none"]
  /\ roff = [r \in Recipients |-> 0]
  /\ rtx = [r \in Recipients |-> NoTx]
  /\ dq = [r \in Recipients |-> <<>>]
  /\ dtx = [r \in Recipients |-> FALSE]
  /\ csig = [r \in Recipients |-> FALSE]
  /\ rsock = [r \in Recipients |-> "open"]
  /\ rOut = [r \in Recipients |-> <<>>]
  /\ pumped = [r \in Recipients |-> <<>>]
  /\ early = [r \in Recipients |-> FALSE]
  /\ lapsed = [s \in Senders |-> 0]

\* AppState::new(): the registry is empty.
InitCommon ==
  /\ registry = [i \in Ids |-> Absent]
  /\ InitTasks

\* Nothing is staged and no download was asked for.
InitNoStaging ==
  /\ disk = EmptyDisk
  /\ now = 0
  /\ resp = "none"

\* One sender connection arrives; the other never does.
Init ==
  /\ InitCommon
  /\ InitNoStaging
  /\ spc = [s \in Senders |-> IF s = "s1" THEN "init" ELSE "absent"]
  /\ cst = [s \in Senders |-> IF s = "s1" THEN "new" ELSE "closed"]
  /\ sIn = [s \in Senders |-> <<>>]

\* Two sender connections arrive. The client of the second has sent its
\* metadata and closed: both frames are in flight.
InitTwoSenders ==
  /\ InitCommon
  /\ InitNoStaging
  /\ spc = [s \in Senders |-> "init"]
  /\ cst = [s \in Senders |-> IF s = "s1" THEN "new" ELSE "closed"]
  /\ sIn = [s \in Senders |->
              IF s = "s1" THEN <<>> ELSE <<Frame("meta", s, 0, 0), Ctl("close")>>]

\* ------------------------------------------------------------------ the sender client
\* The peer of handle_sender. It follows the protocol of the sender page: it
\* emits binary frames only between start / resume and paused, restarts its
\* stream at the offset of a resume, and may close at any time.

\* The first text message: metadata that parses as SenderInit, or text that
\* does not.
C_Hello(s) ==
  /\ UNCHANGED stagingVars
  /\ cst[s] = "new"
  /\ \E k \in {"meta", "badtext"} :
       sIn' = [sIn EXCEPT ![s] = Append(@, Frame(k, s, 0, 0))]
  /\ cst' = [cst EXCEPT ![s] = "idle"]
  /\ UNCHANGED <<registry, senderVars, sOut, cIn, cpos, cep, emitted, junk,
                 recipVars, ghostVars>>

\* A pong: the answer to a ping, or an unsolicited one. One per connection
\* is modelled.
C_Junk(s) ==
  /\ UNCHANGED stagingVars
  /\ cst[s] \in {"new", "idle", "streaming", "finished"}
  /\ ~junk[s]
  /\ junk' = [junk EXCEPT ![s] = TRUE]
  /\ sIn' = [sIn EXCEPT ![s] = Append(@, Ctl("pong"))]
  /\ UNCHANGED <<registry, senderVars, sOut, cIn, cst, cpos, cep, emitted,
                 recipVars, ghostVars>>

\* The client receives the next frame the relay wrote.
C_Recv(s) ==
  /\ UNCHANGED stagingVars
  /\ cst[s] \notin {"closed", "cut"}
  /\ cIn[s] # <<>>
  /\ LET f == Head(cIn[s]) IN
     /\ cIn' = [cIn EXCEPT ![s] = Tail(@)]
     /\ cst' = [cst EXCEPT ![s] =
                  IF f.k = "start" /\ @ = "idle" THEN "streaming"
                  ELSE IF f.k = "resume" THEN "streaming"
                  ELSE IF f.k = "paused" THEN "idle"
                  ELSE @]
     /\ cpos' = [cpos EXCEPT ![s] = IF f.k = "resume" THEN f.pos ELSE @]
     /\ cep' = [cep EXCEPT ![s] = IF f.k \in {"start", "resume"} THEN @ + 1 ELSE @]
  /\ UNCHANGED <<registry, senderVars, sIn, sOut, emitted, junk, recipVars, ghostVars>>

\* One binary frame of the stream, tagged with its position and with the
\* number of start / resume frames the client had received when it emitted it.
C_SendBin(s) ==
  /\ UNCHANGED stagingVars
  /\ cst[s] = "streaming"
  /\ emitted[s] < MaxFrames
  /\ sIn' = [sIn EXCEPT ![s] = Append(@, Frame("bin", "", cpos[s], cep[s]))]
  /\ cpos' = [cpos EXCEPT ![s] = @ + 1]
  /\ emitted' = [emitted EXCEPT ![s] = @ + 1]
  /\ UNCHANGED <<registry, senderVars, sOut, cIn, cst, cep, junk, recipVars, ghostVars>>

\* A client that does not wait for `start`: it emits a binary frame after its
\* metadata, while the relay has not written `start` yet. The frame carries
\* epoch 0.
C_SendEarly(s) ==
  /\ UNCHANGED stagingVars
  /\ cst[s] = "idle" /\ cep[s] = 0
  /\ spc[s] \in {"init", "wait"}
  /\ emitted[s] = 0
  /\ sIn' = [sIn EXCEPT ![s] = Append(@, Frame("bin", "", cpos[s], 0))]
  /\ cpos' = [cpos EXCEPT ![s] = @ + 1]
  /\ emitted' = [emitted EXCEPT ![s] = @ + 1]
  /\ UNCHANGED <<registry, senderVars, sOut, cIn, cst, cep, junk, recipVars, ghostVars>>

\* The terminator {"type":"done"}.
C_SendDone(s) ==
  /\ UNCHANGED stagingVars
  /\ cst[s] = "streaming"
  /\ sIn' = [sIn EXCEPT ![s] = Append(@, Frame("done", "", 0, cep[s]))]
  /\ cst' = [cst EXCEPT ![s] = "finished"]
  /\ UNCHANGED <<registry, senderVars, sOut, cIn, cpos, cep, emitted, junk,
                 recipVars, ghostVars>>

\* The client closes its socket: a Close frame, or the end of the stream.
C_Close(s) ==
  /\ UNCHANGED stagingVars
  /\ cst[s] \in {"new", "idle", "streaming", "finished"}
  /\ sIn' = [sIn EXCEPT ![s] = Append(@, Ctl("close"))]
  /\ cst' = [cst EXCEPT ![s] = "closed"]
  /\ UNCHANGED <<registry, senderVars, sOut, cIn, cpos, cep, emitted, junk,
                 recipVars, ghostVars>>

\* The recipient client closes its socket. handle_receiver reads its socket
\* in the pump loop only, so a close that came earlier is seen there.
C_RClose(r) ==
  /\ UNCHANGED stagingVars
  /\ rpc[r] = "pump"
  /\ rsock[r] = "open"
  /\ rsock' = [rsock EXCEPT ![r] = "closed"]
  /\ UNCHANGED <<registry, senderVars, sockVars, clientVars, rpc, rid, roff, rtx,
                 dq, dtx, csig, rOut, ghostVars>>

\* ------------------------------------------------------------------ shared objects
\* Message::Text(_)
IsText(f) == f.k \in {"meta", "badtext", "done"}
\* A match that takes the terminator {"type":"done"} for a close as well.
ClosesOnDone(f) == f.k \in {"close", "done"}
\* Message::Close(_), or the end of the stream (None)
IsClose(f) == f.k = "close"
\* A parser that accepts every text message.
ParsesAnyText(f) == f.k \in {"meta", "badtext", "done"}

\* serde_json::from_str::<SenderInit>(&text) is Ok: filename and size present
ParsesAsInit(f) == f.k = "meta"
\* val.get("type") == Some("done")
IsDone(f) == f.k = "done"

\* nanoid!(12). Ids are interchangeable, so the first sender's draw is fixed;
\* the second sender's draw may or may not collide with it.
IdGen(s) == IF s = "s1" THEN {"i1"} ELSE Ids

\* state.transfers.insert(id, entry): DashMap::insert puts the entry
\* whatever the map holds under the id.
InsertEntry(reg, id, e) == [reg EXCEPT ![id] = e]

\* A remove that is left out.
RemoveSkipped(reg, id) == reg

\* A handler that ends a transfer by marking its entry Done.
MarkDone(reg, id) == [reg EXCEPT ![id] = Done]

\* state.transfers.remove(&id)
RemoveEntry(reg, id) == [reg EXCEPT ![id] = Absent]

\* An entry that leaves the map is dropped, and with it the recipient_tx it
\* carries: the one-shot's consumer then resolves to Err.
AfterDrop(o, e) ==
  IF e.tx.s \in Senders /\ round[e.tx.s] = e.tx.k /\ o[e.tx.s] = "open"
  THEN [o EXCEPT ![e.tx.s] = "txdropped"]
  ELSE o

\* A sender task whose return or give-up drops no producer.
DropNothing(d, s) == d

\* What the sender task drops when it returns or gives a round up: the
\* data_tx it holds, and the link of a one-shot it never received from.
DropHeld(d, s) ==
  [r \in Recipients |->
     IF r = att[s] \/ (os[s] = "sent" /\ r = oslink[s]) THEN FALSE ELSE d[r]]

\* A consumer end that is taken to outlive its handler.
RxForever(r) == TRUE

\* data_rx is alive from the claim until handle_receiver returns.
RxAlive(r) == rpc[r] \in {"publish", "mark", "pump"}

\* cancel_rx.recv() is ready: a unit was sent, or cancel_tx is dropped.
CancelReady(r) == csig[r] \/ rpc[r] = "done"

\* A sender socket on which `paused` is never written.
SWriteNoPaused(s, f) ==
  /\ sOut' = [sOut EXCEPT ![s] = IF f.k = "paused" THEN @ ELSE Append(@, f)]
  /\ cIn' = [cIn EXCEPT ![s] = IF f.k \in {"start", "resume"}
                                 THEN Append(@, f) ELSE @]

\* ws_tx.send(..) on the sender socket. The client acts on start, paused and
\* resume only, so only these are kept in flight towards it.
SWrite(s, f) ==
  /\ sOut' = [sOut EXCEPT ![s] = Append(@, f)]
  /\ cIn' = [cIn EXCEPT ![s] = IF f.k \in {"start", "paused", "resume"}
                                 THEN Append(@, f) ELSE @]

\* handle_sender returns: both halves of the socket are dropped, what was in
\* flight on it is lost, and the connection of a client that had not closed
\* is cut (its counters no longer matter and are cleared).
S_Return(s) ==
  /\ spc' = [spc EXCEPT ![s] = "done"]
  /\ sIn' = [sIn EXCEPT ![s] = <<>>]
  /\ cIn' = [cIn EXCEPT ![s] = <<>>]
  /\ cst' = [cst EXCEPT ![s] = IF @ = "closed" THEN @ ELSE "cut"]
  /\ cpos' = [cpos EXCEPT ![s] = 0]
  /\ cep' = [cep EXCEPT ![s] = 0]
  /\ emitted' = [emitted EXCEPT ![s] = 0]
  /\ junk' = [junk EXCEPT ![s] = FALSE]

\* ------------------------------------------------------------------ handle_sender
\* Step 1, a text message that parses; step 2, the entry and the one-shot;
\* then `ready`.
S_InitMeta(s) ==
  /\ UNCHANGED stagingVars
  /\ spc[s] = "init" /\ sIn[s] # <<>>
  /\ ParsesAsInit(Head(sIn[s]))
  /\ \E id \in IdGen(s) :
       /\ registry' = InsertEntry(registry, id,
                        WaitingForRecipient(Head(sIn[s]).v, s, round[s] + 1))
       /\ os' = [AfterDrop(os, registry[id]) EXCEPT ![s] = "open"]
       /\ sid' = [sid EXCEPT ![s] = id]
       /\ SWrite(s, Frame("ready", id, 0, 0))
  /\ smeta' = [smeta EXCEPT ![s] = Head(sIn[s]).v]
  /\ round' = [round EXCEPT ![s] = @ + 1]
  /\ sIn' = [sIn EXCEPT ![s] = Tail(@)]
  /\ spc' = [spc EXCEPT ![s] = "wait"]
  /\ UNCHANGED <<oslink, att, pend, timer, clientVars, recipVars, ghostVars>>

\* Step 1, a text message that does not parse: `error`, return.
S_InitBad(s) ==
  /\ UNCHANGED stagingVars
  /\ spc[s] = "init" /\ sIn[s] # <<>>
  /\ IsText(Head(sIn[s])) /\ ~ParsesAsInit(Head(sIn[s]))
  /\ sOut' = [sOut EXCEPT ![s] = Append(@, Frame("error", ErrInvalid, 0, 0))]
  /\ S_Return(s)
  /\ UNCHANGED <<registry, sid, smeta, round, os, oslink, att, pend, timer,
                 recipVars, ghostVars>>

\* Step 1, close: return.
S_InitClose(s) ==
  /\ UNCHANGED stagingVars
  /\ spc[s] = "init" /\ sIn[s] # <<>>
  /\ IsClose(Head(sIn[s]))
  /\ S_Return(s)
  /\ UNCHANGED <<registry, sid, smeta, round, os, oslink, att, pend, timer,
                 sOut, recipVars, ghostVars>>

\* Step 1, any other message: continue.
S_InitOther(s) ==
  /\ UNCHANGED stagingVars
  /\ spc[s] = "init" /\ sIn[s] # <<>>
  /\ ~IsText(Head(sIn[s])) /\ ~IsClose(Head(sIn[s]))
  /\ sIn' = [sIn EXCEPT ![s] = Tail(@)]
  /\ UNCHANGED <<registry, senderVars, sOut, cIn, clientVars, recipVars, ghostVars>>

\* Step 3, recipient_rx resolves to Ok(link); step 4, `start`.
S_WaitLink(s) ==
  /\ UNCHANGED stagingVars
  /\ spc[s] = "wait" /\ os[s] = "sent"
  /\ os' = [os EXCEPT ![s] = "taken"]
  /\ att' = [att EXCEPT ![s] = oslink[s]]
  /\ SWrite(s, Ctl("start"))
  /\ spc' = [spc EXCEPT ![s] = "relay"]
  /\ UNCHANGED <<registry, sid, smeta, round, oslink, pend, timer, sIn,
                 clientVars, recipVars, ghostVars>>

\* Step 3, recipient_rx resolves to Err, or the sender closed: both branches
\* remove the entry and return.
S_WaitClose(s) ==
  /\ UNCHANGED stagingVars
  /\ spc[s] = "wait"
  /\ os[s] = "txdropped" \/ (sIn[s] # <<>> /\ IsClose(Head(sIn[s])))
  /\ registry' = RemoveEntry(registry, sid[s])
  /\ os' = [AfterDrop(os, registry[sid[s]]) EXCEPT ![s] = "rxdropped"]
  /\ dtx' = DropHeld(dtx, s)
  /\ S_Return(s)
  /\ UNCHANGED <<sid, smeta, round, oslink, att, pend, timer, sOut,
                 rpc, rid, roff, rtx, dq, csig, rsock, rOut,
                 ghostVars>>

\* A sleep that is armed anew each time the loop goes round.
SleepRestarted(tm, s) == [tm EXCEPT ![s] = "running"]

\* The reconnect sleep is created and pinned before the loop and polled by
\* reference in it: going round the loop leaves it as it is.
SleepAfterLoop(tm, s) == tm

\* Step 3, any other message: ignored.
S_WaitOther(s) ==
  /\ UNCHANGED stagingVars
  /\ spc[s] = "wait" /\ sIn[s] # <<>>
  /\ ~IsClose(Head(sIn[s]))
  /\ sIn' = [sIn EXCEPT ![s] = Tail(@)]
  /\ UNCHANGED <<registry, senderVars, sOut, cIn, clientVars, recipVars, ghostVars>>

\* Steps 3 and 5, ping_timer ticks: Message::Ping is written, and the loop
\* goes round. sOut records the text frames only, so nothing changes.
S_Ping(s) ==
  /\ UNCHANGED stagingVars
  /\ spc[s] \in {"wait", "rewait"}
  /\ timer' = IF spc[s] = "rewait" THEN SleepAfterLoop(timer, s) ELSE timer
  /\ UNCHANGED <<registry, spc, sid, smeta, round, os, oslink, att, pend,
                 sockVars, clientVars, recipVars, ghostVars>>

\* ------------------------------------------------------------------ step 5 and relay_data
\* RelayResult::Done or SenderDisconnected: break (data_tx and cancel_rx are
\* dropped), state.transfers.remove(&id), return.
ExitSession(s) ==
  /\ registry' = RemoveEntry(registry, sid[s])
  /\ os' = AfterDrop(os, registry[sid[s]])
  /\ dtx' = DropHeld(dtx, s)
  /\ att' = [att EXCEPT ![s] = NoRecipient]
  /\ pend' = [pend EXCEPT ![s] = Ctl("none")]
  /\ S_Return(s)
  /\ UNCHANGED <<sid, smeta, round, oslink, timer, sOut>>

\* RelayResult::RecipientDisconnected: a new one-shot, insert Reconnecting,
\* `paused`, and the reconnect sleep starts.
PutReconnecting(s) ==
  /\ registry' = InsertEntry(registry, sid[s], Reconnecting(smeta[s], s, round[s] + 1))
  /\ os' = [AfterDrop(os, registry[sid[s]]) EXCEPT ![s] = "open"]
  /\ round' = [round EXCEPT ![s] = @ + 1]
  /\ dtx' = DropHeld(dtx, s)
  /\ att' = [att EXCEPT ![s] = NoRecipient]
  /\ pend' = [pend EXCEPT ![s] = Ctl("none")]
  /\ SWrite(s, Ctl("paused"))
  /\ timer' = [timer EXCEPT ![s] = "running"]
  /\ spc' = [spc EXCEPT ![s] = "rewait"]
  /\ UNCHANGED <<sid, smeta, oslink, clientVars>>

\* A queue that never refuses a message.
NeverFull(q) == TRUE

\* The bounded queue made by mpsc::channel(CHANNEL_BUFFER) has a free slot.
HasRoom(q) == Len(q) < QueueCap

\* data_tx.send(m) completes: the message joins the queue behind the others.
Send(q, m) == Append(q, m)

\* A Data message that carries the bytes of the following frame.
DataShifted(f) == Frame("Data", "", f.pos + 1, f.ep)

\* The message relay_data puts on the queue for a binary frame.
DataOf(f) == Frame("Data", "", f.pos, f.ep)

\* relay_data reads a binary frame and sends Data on data_tx: the send fails
\* when data_rx is gone, completes when the queue has room, and waits
\* otherwise.
P_Binary(s) ==
  /\ UNCHANGED stagingVars
  /\ spc[s] = "relay" /\ sIn[s] # <<>>
  /\ Head(sIn[s]).k = "bin"
  /\ pumped' = [pumped EXCEPT ![att[s]] = Append(@, Head(sIn[s]))]
  /\ sIn' = [sIn EXCEPT ![s] = Tail(@)]
  /\ UNCHANGED <<rpc, rid, roff, rtx, csig, rsock, rOut, early, lapsed>>
  /\ IF ~RxAlive(att[s])
     THEN PutReconnecting(s) /\ UNCHANGED dq
     ELSE IF HasRoom(dq[att[s]])
     THEN /\ dq' = [dq EXCEPT ![att[s]] = Send(@, DataOf(Head(sIn[s])))]
          /\ UNCHANGED <<registry, senderVars, sOut, cIn, clientVars, dtx>>
     ELSE /\ pend' = [pend EXCEPT ![s] = DataOf(Head(sIn[s]))]
          /\ spc' = [spc EXCEPT ![s] = "blocked"]
          /\ UNCHANGED <<registry, sid, smeta, round, os, oslink, att, timer,
                         sOut, cIn, clientVars, dq, dtx>>

\* A terminal message that is Finished whatever frame ended the relay.
LastAlwaysFinished(f) == Ctl("Finished")

\* The message relay_data puts on the queue for the frame that ends the relay:
\* Finished for {"type":"done"}, Error("Sender disconnected") for a close.
LastOf(f) ==
  IF IsDone(f) THEN Ctl("Finished") ELSE Frame("Error", ErrSenderGone, 0, 0)

\* relay_data reads {"type":"done"} or a close: it sends Finished, or
\* Error("Sender disconnected"), ignores the outcome of the send, and returns
\* Done or SenderDisconnected.
P_Last(s) ==
  /\ UNCHANGED stagingVars
  /\ spc[s] = "relay" /\ sIn[s] # <<>>
  /\ IsDone(Head(sIn[s])) \/ IsClose(Head(sIn[s]))
  /\ UNCHANGED <<rpc, rid, roff, rtx, csig, rsock, rOut, ghostVars>>
  /\ LET m == LastOf(Head(sIn[s])) IN
     IF ~RxAlive(att[s])
     THEN ExitSession(s) /\ UNCHANGED dq
     ELSE IF HasRoom(dq[att[s]])
     THEN ExitSession(s) /\ dq' = [dq EXCEPT ![att[s]] = Send(@, m)]
     ELSE /\ pend' = [pend EXCEPT ![s] = m]
          /\ spc' = [spc EXCEPT ![s] = "blocked"]
          /\ sIn' = [sIn EXCEPT ![s] = Tail(@)]
          /\ UNCHANGED <<registry, sid, smeta, round, os, oslink, att, timer,
                         sOut, cIn, clientVars, dq, dtx>>

\* A send that waited completes: the queue has room, or data_rx is gone.
P_Unblock(s) ==
  /\ UNCHANGED stagingVars
  /\ spc[s] = "blocked"
  /\ ~RxAlive(att[s]) \/ HasRoom(dq[att[s]])
  /\ UNCHANGED <<rpc, rid, roff, rtx, csig, rsock, rOut, ghostVars>>
  /\ IF pend[s].k = "Data"
     THEN IF RxAlive(att[s])
          THEN /\ dq' = [dq EXCEPT ![att[s]] = Send(@, pend[s])]
               /\ pend' = [pend EXCEPT ![s] = Ctl("none")]
               /\ spc' = [spc EXCEPT ![s] = "relay"]
               /\ UNCHANGED <<registry, sid, smeta, round, os, oslink, att, timer,
                              sockVars, clientVars, dtx>>
          ELSE PutReconnecting(s) /\ UNCHANGED <<sIn, dq>>
     ELSE /\ ExitSession(s)
          /\ dq' = IF RxAlive(att[s])
                   THEN [dq EXCEPT ![att[s]] = Send(@, pend[s])] ELSE dq

\* relay_data reads any other message: a text that is not done, a pong.
P_Other(s) ==
  /\ UNCHANGED stagingVars
  /\ spc[s] = "relay" /\ sIn[s] # <<>>
  /\ Head(sIn[s]).k \notin {"bin", "done", "close"}
  /\ sIn' = [sIn EXCEPT ![s] = Tail(@)]
  /\ UNCHANGED <<registry, senderVars, sOut, cIn, clientVars, recipVars, ghostVars>>

\* cancel_rx.recv() returns: RecipientDisconnected.
P_Cancel(s) ==
  /\ UNCHANGED stagingVars
  /\ spc[s] = "relay"
  /\ CancelReady(att[s])
  /\ PutReconnecting(s)
  /\ UNCHANGED <<sIn, rpc, rid, roff, rtx, dq, csig, rsock, rOut, ghostVars>>

\* ------------------------------------------------------------------ the reconnect wait
\* An offset that ignores what the recipient supplied.
ResumeFromZero(r) == 0

\* link.resume_offset
ResumeOffset(r) == roff[r]

\* new_rx resolves to Ok(link): `resume` with the link's offset, insert
\* Active, and the relay restarts.
S_ReLink(s) ==
  /\ UNCHANGED stagingVars
  /\ spc[s] = "rewait" /\ os[s] = "sent"
  /\ registry' = InsertEntry(registry, sid[s], Active)
  /\ os' = [AfterDrop(os, registry[sid[s]]) EXCEPT ![s] = "taken"]
  /\ att' = [att EXCEPT ![s] = oslink[s]]
  /\ SWrite(s, Frame("resume", "", ResumeOffset(oslink[s]), 0))
  /\ timer' = [timer EXCEPT ![s] = "off"]
  /\ spc' = [spc EXCEPT ![s] = "relay"]
  /\ UNCHANGED <<sid, smeta, round, oslink, pend, sIn, clientVars, recipVars,
                 ghostVars>>

\* new_link is None: `cancelled`, break, state.transfers.remove(&id), return.
\* new_rx is dropped, and with it a link that was published but not received.
GiveUp(s) ==
  /\ registry' = RemoveEntry(registry, sid[s])
  /\ os' = [AfterDrop(os, registry[sid[s]]) EXCEPT ![s] = "rxdropped"]
  /\ dtx' = DropHeld(dtx, s)
  /\ sOut' = [sOut EXCEPT ![s] = Append(@, Frame("cancelled", ErrRecipientGone, 0, 0))]
  /\ timer' = [timer EXCEPT ![s] = "off"]
  /\ S_Return(s)
  /\ UNCHANGED <<sid, smeta, round, oslink, att, pend,
                 rpc, rid, roff, rtx, dq, csig, rsock, rOut, ghostVars>>

\* The sleep of RECONNECT_TIMEOUT completes: remove, then as above.
S_ReTimeout(s) ==
  /\ UNCHANGED stagingVars
  /\ spc[s] = "rewait" /\ timer[s] = "fired"
  /\ GiveUp(s)

\* new_rx resolves to Err, or the sender closed while waiting for the
\* reconnect (remove): new_link is None.
S_ReClose(s) ==
  /\ UNCHANGED stagingVars
  /\ spc[s] = "rewait"
  /\ os[s] = "txdropped" \/ (sIn[s] # <<>> /\ IsClose(Head(sIn[s])))
  /\ GiveUp(s)

\* Any other message while waiting for the reconnect: ignored.
S_ReOther(s) ==
  /\ UNCHANGED stagingVars
  /\ spc[s] = "rewait" /\ sIn[s] # <<>>
  /\ ~IsClose(Head(sIn[s]))
  /\ sIn' = [sIn EXCEPT ![s] = Tail(@)]
  /\ timer' = SleepAfterLoop(timer, s)
  /\ UNCHANGED <<registry, spc, sid, smeta, round, os, oslink, att, pend,
                 sOut, cIn, clientVars, recipVars, ghostVars>>

\* RECONNECT_TIMEOUT elapses on the running sleep.
TimerExpire(s) ==
  /\ UNCHANGED stagingVars
  /\ timer[s] = "running"
  /\ timer' = [timer EXCEPT ![s] = "fired"]
  /\ lapsed' = [lapsed EXCEPT ![s] = IF os[s] = "sent" THEN @ ELSE round[s]]
  /\ UNCHANGED <<registry, spc, sid, smeta, round, os, oslink, att, pend,
                 sockVars, clientVars, recipVars, pumped, early>>

\* ------------------------------------------------------------------ handle_receiver
\* A handler that goes round its loop again where the code leaves it.
R_LoopOn(r) ==
  /\ rpc' = rpc
  /\ dq' = dq
  /\ rsock' = rsock

\* handle_receiver returns: the socket, data_rx and what it
\* still holds are dropped.
R_Return(r) ==
  /\ rpc' = [rpc EXCEPT ![r] = "done"]
  /\ dq' = [dq EXCEPT ![r] = <<>>]
  /\ rsock' = [rsock EXCEPT ![r] = IF @ = "closed" THEN @ ELSE "cut"]

\* The ids recipients connect to: ids are unguessable, so a recipient's path
\* holds an id that some `ready` frame carried. The resume_offset of the query
\* is any value; the offset of a link that answers a WaitingForRecipient entry
\* is never read, and is modelled as 0.
Issued == {sid[s] : s \in Senders} \ {"none"}

\* Recipient connections are named in the order of their claims.
NextToArrive(r) == r = "r1" \/ rpc["r1"] # "idle"

\* A match that accepts the entry of a first attachment only.
ClaimableOnce(e) == e.st = "Waiting"

\* The states the match on the removed entry accepts.
Claimable(e) == e.st \in {"Waiting", "Reconnecting"}

\* A lookup that leaves the entry in the map (a get where the code removes).
TakeEntryByGet(reg, id) == reg

\* state.transfers.remove(&id), whatever the entry's state.
TakeEntry(reg, id) == RemoveEntry(reg, id)

\* A claim that writes nothing to the recipient socket.
WritesNothing(e) == <<>>

\* What a successful claim writes to the recipient socket before it publishes
\* its link: the `metadata` frame of the entry it took.
WritesMetadata(e) == <<Frame("metadata", e.meta, 0, 0)>>

\* The claim finds WaitingForRecipient or Reconnecting: the recipient now
\* holds metadata and recipient_tx, creates the two channels and writes
\* `metadata`.
R_Claim(r) ==
  /\ UNCHANGED stagingVars
  /\ rpc[r] = "idle" /\ NextToArrive(r)
  /\ \E id \in Issued, off \in 0..MaxOffset :
       /\ Claimable(registry[id])
       /\ registry[id].st = "Waiting" => off = 0
       /\ registry' = TakeEntry(registry, id)
       /\ rid' = [rid EXCEPT ![r] = id]
       /\ roff' = [roff EXCEPT ![r] = off]
       /\ rtx' = [rtx EXCEPT ![r] = registry[id].tx]
       /\ rOut' = [rOut EXCEPT ![r] = @ \o WritesMetadata(registry[id])]
       /\ early' = [early EXCEPT ![r] = registry[id].st = "Reconnecting"
                                         /\ timer[registry[id].tx.s] # "fired"]
  /\ dtx' = [dtx EXCEPT ![r] = TRUE]
  /\ rpc' = [rpc EXCEPT ![r] = "publish"]
  /\ UNCHANGED <<senderVars, sockVars, clientVars, dq, csig, rsock, pumped, lapsed>>

\* The claim finds nothing, Active or Done: the removed entry is dropped,
\* `error`, return.
R_ClaimFail(r) ==
  /\ UNCHANGED stagingVars
  /\ rpc[r] = "idle" /\ NextToArrive(r)
  /\ \E id \in Issued :
       /\ ~Claimable(registry[id])
       /\ registry' = TakeEntry(registry, id)
       /\ rid' = [rid EXCEPT ![r] = id]
  /\ rOut' = [rOut EXCEPT ![r] = Append(@, Frame("error", ErrNotFound, 0, 0))]
  /\ R_Return(r)
  /\ UNCHANGED <<senderVars, sockVars, clientVars, roff, rtx, dtx, csig, ghostVars>>

\* A send whose outcome is taken to be Ok whatever became of the consumer.
PublishAlways(tx) == tx.s \in Senders

\* recipient_tx.send(link) succeeds while the one-shot's consumer is alive.
CanPublish(tx) == tx.s \in Senders /\ round[tx.s] = tx.k /\ os[tx.s] = "open"

\* recipient_tx.send(link) is Ok.
R_Publish(r) ==
  /\ UNCHANGED stagingVars
  /\ rpc[r] = "publish"
  /\ CanPublish(rtx[r])
  /\ os' = [os EXCEPT ![rtx[r].s] = "sent"]
  /\ oslink' = [oslink EXCEPT ![rtx[r].s] = r]
  /\ rpc' = [rpc EXCEPT ![r] = "mark"]
  /\ UNCHANGED <<registry, spc, sid, smeta, round, att, pend, timer, sockVars,
                 clientVars, rid, roff, rtx, dq, dtx, csig, rsock, rOut, ghostVars>>

\* recipient_tx.send(link) is Err: `error`, return; the link is dropped.
R_PublishFail(r) ==
  /\ UNCHANGED stagingVars
  /\ rpc[r] = "publish"
  /\ ~CanPublish(rtx[r])
  /\ rOut' = [rOut EXCEPT ![r] = Append(@, Frame("error", ErrSenderGone, 0, 0))]
  /\ dtx' = [dtx EXCEPT ![r] = FALSE]
  /\ R_Return(r)
  /\ UNCHANGED <<registry, senderVars, sockVars, clientVars, rid, roff, rtx, csig,
                 ghostVars>>

\* state.transfers.insert(id, TransferState::Active)
R_MarkActive(r) ==
  /\ UNCHANGED stagingVars
  /\ rpc[r] = "mark"
  /\ registry' = InsertEntry(registry, rid[r], Active)
  /\ os' = AfterDrop(os, registry[rid[r]])
  /\ rpc' = [rpc EXCEPT ![r] = "pump"]
  /\ UNCHANGED <<spc, sid, smeta, round, oslink, att, pend, timer, sockVars,
                 clientVars, rid, roff, rtx, dq, dtx, csig, rsock, rOut, ghostVars>>

\* What the recipient's loop writes for a message of the queue.
WriteOf(m) ==
  IF m.k = "Data" THEN Frame("binary", "", m.pos, m.ep)
  ELSE IF m.k = "Finished" THEN Ctl("done")
  ELSE Frame("error", m.v, 0, 0)

\* data_rx.recv() is Some(Data): the binary frame is written.
R_Data(r) ==
  /\ UNCHANGED stagingVars
  /\ rpc[r] = "pump" /\ dq[r] # <<>>
  /\ Head(dq[r]).k = "Data"
  /\ rOut' = [rOut EXCEPT ![r] = Append(@, WriteOf(Head(dq[r])))]
  /\ dq' = [dq EXCEPT ![r] = Tail(@)]
  /\ UNCHANGED <<registry, senderVars, sockVars, clientVars, rpc, rid, roff, rtx, dtx,
                 csig, rsock, ghostVars>>

\* data_rx.recv() is Some(Data) and the write fails: cancel_tx.send(()), break.
R_DataFail(r) ==
  /\ UNCHANGED stagingVars
  /\ rpc[r] = "pump" /\ dq[r] # <<>>
  /\ Head(dq[r]).k = "Data"
  /\ rsock[r] = "closed"
  /\ csig' = [csig EXCEPT ![r] = TRUE]
  /\ R_Return(r)
  /\ UNCHANGED <<registry, senderVars, sockVars, clientVars, rid, roff, rtx, dtx,
                 rOut, ghostVars>>

\* data_rx.recv() is Some(Finished) or Some(Error(e)): `done` or `error`, break.
R_Last(r) ==
  /\ UNCHANGED stagingVars
  /\ rpc[r] = "pump" /\ dq[r] # <<>>
  /\ Head(dq[r]).k \in {"Finished", "Error"}
  /\ rOut' = [rOut EXCEPT ![r] = Append(@, WriteOf(Head(dq[r])))]
  /\ R_Return(r)
  /\ UNCHANGED <<registry, senderVars, sockVars, clientVars, rid, roff, rtx, dtx,
                 csig, ghostVars>>

\* data_rx.recv() is None, the queue is empty and data_tx is gone: `error`, break.
R_QueueClosed(r) ==
  /\ UNCHANGED stagingVars
  /\ rpc[r] = "pump" /\ dq[r] = <<>> /\ ~dtx[r]
  /\ rOut' = [rOut EXCEPT ![r] = Append(@, Frame("error", ErrSenderGone, 0, 0))]
  /\ R_Return(r)
  /\ UNCHANGED <<registry, senderVars, sockVars, clientVars, rid, roff, rtx, dtx,
                 csig, ghostVars>>

\* ws_rx.next() is a close: cancel_tx.send(()), break.
R_SockClose(r) ==
  /\ UNCHANGED stagingVars
  /\ rpc[r] = "pump"
  /\ rsock[r] = "closed"
  /\ csig' = [csig EXCEPT ![r] = TRUE]
  /\ R_Return(r)
  /\ UNCHANGED <<registry, senderVars, sockVars, clientVars, rid, roff, rtx, dtx,
                 rOut, ghostVars>>

\* ------------------------------------------------------------------ the cleaner
\* A sweep that empties the registry.
SweepAll(reg) == [i \in Ids |-> Absent]

\* transfers.retain(|_id, entry| !matches!(entry, TransferState::Done))
Sweep(reg) == [i \in Ids |-> IF reg[i].st = "Done" THEN Absent ELSE reg[i]]

Cleaner ==
  /\ UNCHANGED stagingVars
  /\ registry' = Sweep(registry)
  /\ UNCHANGED <<senderVars, sockVars, clientVars, recipVars, ghostVars>>

\* ------------------------------------------------------------------ specification
SenderStep(s) ==
  \/ S_InitMeta(s) \/ S_InitBad(s) \/ S_InitClose(s) \/ S_InitOther(s)
  \/ S_WaitLink(s) \/ S_WaitClose(s) \/ S_WaitOther(s) \/ S_Ping(s)
  \/ P_Binary(s) \/ P_Last(s) \/ P_Unblock(s) \/ P_Other(s) \/ P_Cancel(s)
  \/ S_ReLink(s) \/ S_ReTimeout(s) \/ S_ReClose(s) \/ S_ReOther(s)

RecipientStep(r) ==
  \/ R_Claim(r) \/ R_ClaimFail(r) \/ R_Publish(r) \/ R_PublishFail(r) \/ R_MarkActive(r)
  \/ R_Data(r) \/ R_DataFail(r) \/ R_Last(r) \/ R_QueueClosed(r) \/ R_SockClose(r)

ClientStep(s) ==
  \/ C_Hello(s) \/ C_Junk(s) \/ C_Recv(s) \/ C_SendBin(s) \/ C_SendDone(s) \/ C_Close(s)

Next ==
  \/ \E s \in Senders : SenderStep(s)
  \/ \E s \in Senders : ClientStep(s)
  \/ \E s \in Senders : TimerExpire(s)
  \/ \E r \in Recipients : RecipientStep(r)
  \/ \E r \in Recipients : C_RClose(r)
  \/ Cleaner

Spec == Init /\ [][Next]_vars

SpecTwoSenders == InitTwoSenders /\ [][Next]_vars

\* Every spawned task is scheduled again: a handler that can take a step
\* eventually takes one. Nothing is assumed of the clients or of the sleep.
Fairness ==
  /\ \A s \in Senders : WF_vars(SenderStep(s))
  /\ \A r \in Recipients : WF_vars(RecipientStep(r))

SpecFair == Init /\ [][Next]_vars /\ Fairness

\* The same system with a sender client that may emit before `start`.
NextEarly ==
  \/ Next
  \/ \E s \in Senders : C_SendEarly(s)

SpecEarly == Init /\ [][NextEarly]_vars

\* The cleaner alone, on every registry over Ids: each id is absent or holds
\* any variant of TransferState, with the one-shot producer of any sender and
\* round. retain is applied to whatever the map holds.
MaxRound == 2           \* one-shots a sender has created, in a drawn registry
Entries ==
  {Absent, Active, Done}
    \cup {WaitingForRecipient(s, s, k) : s \in Senders, k \in 1..MaxRound}
    \cup {Reconnecting(s, s, k) : s \in Senders, k \in 1..MaxRound}

InitSweep ==
  /\ registry \in [Ids -> Entries]
  /\ InitTasks
  /\ InitNoStaging
  /\ spc = [s \in Senders |-> "absent"]
  /\ cst = [s \in Senders |-> "closed"]
  /\ sIn = [s \in Senders |-> <<>>]

NextSweep == Cleaner

SpecSweep == InitSweep /\ [][NextSweep]_vars

\* ------------------------------------------------------------------ staged download
MaxSize == 1            \* largest size / received_size of a manifest
MaxTime == 2            \* largest unix time, of the clock and of a manifest

\* Any staging state of the id: an upload may have left any of its files.
Manifests ==
  {NoFile, Garbled}
    \cup {FileManifest(c, r, z, e) :
            c \in BOOLEAN, r \in 0..MaxSize, z \in 0..MaxSize, e \in 0..MaxTime}
Disks ==
  {[manifest |-> m, manifest_tmp |-> x, chunks |-> c, chunks_tmp |-> x] :
     m \in Manifests, x \in BOOLEAN, c \in BOOLEAN}

\* AppState::load_manifest: the file is read and parsed; either failure is
\* None.
load_manifest(d) ==
  IF d.manifest.kind = "manifest" THEN d.manifest ELSE NoManifest

\* AppState::delete_transfer_files: the four paths of the id are removed.
delete_transfer_files(d) == EmptyDisk

\* An expiry test that lets a manifest live through its last second.
ExpiredAfter(m, t) == m.expires_at_unix < t

\* manifest.expires_at_unix <= unix_now()
Expired(m, t) == m.expires_at_unix <= t

\* manifest.complete && manifest.received_size == manifest.size
Complete(m) == m.complete /\ m.received_size = m.size

\* routes::download_blob
download_blob ==
  /\ resp = "none"
  /\ LET manifest == load_manifest(disk) IN
       IF manifest.kind # "manifest" \/ ~Complete(manifest)
       THEN resp' = "404" /\ disk' = disk
       ELSE IF Expired(manifest, now)
       THEN resp' = "404" /\ disk' = delete_transfer_files(disk)
       ELSE resp' = "200" /\ disk' = disk
  /\ UNCHANGED <<now, registry, senderVars, sockVars, clientVars, recipVars,
                 ghostVars>>

\* A second passes on the clock unix_now() reads.
Tick ==
  /\ now < MaxTime
  /\ now' = now + 1
  /\ UNCHANGED <<disk, resp, registry, senderVars, sockVars, clientVars,
                 recipVars, ghostVars>>

InitDownload ==
  /\ registry = [i \in Ids |-> Absent]
  /\ InitTasks
  /\ spc = [s \in Senders |-> "absent"]
  /\ cst = [s \in Senders |-> "closed"]
  /\ sIn = [s \in Senders |-> <<>>]
  /\ disk \in Disks
  /\ now = 0
  /\ resp = "none"

NextDownload ==
  \/ download_blob
  \/ Tick

SpecDownload == InitDownload /\ [][NextDownload]_vars


\* ------------------------------------------------------------------ properties
ErrFrame(e) == Frame("error", e, 0, 0)

\* The recipient obtained an entry and the one-shot producer it carried.
HoldsProducer(r) == rtx[r] # NoTx

\* The step in which a recipient session runs its claim.
Claims(r) == rpc[r] = "idle" /\ rpc'[r] # "idle"

\* C1. At most one claim per entry: an entry, identified by the one-shot
\* producer it carries (a new Reconnecting entry carries a new one), is
\* obtained by at most one recipient session; a session that obtained nothing
\* is sent 'Transfer not found or already claimed' and nothing else, neither
\* metadata nor a binary frame; and a claim that finds WaitingForRecipient or
\* Reconnecting obtains the entry, taking it out of the registry.
C1_OneHolder ==
  /\ \A r1, r2 \in Recipients : r1 # r2 /\ HoldsProducer(r1) => rtx[r1] # rtx[r2]
  /\ \A r \in Recipients :
       rpc[r] # "idle" /\ ~HoldsProducer(r) => rOut[r] = <<ErrFrame(ErrNotFound)>>

C1_ClaimStep ==
  \A r \in Recipients :
    Claims(r) /\ Claimable(registry[rid'[r]]) =>
      /\ rtx'[r] = registry[rid'[r]].tx
      /\ registry'[rid'[r]] = Absent
      /\ rOut'[r] = <<Frame("metadata", registry[rid'[r]].meta, 0, 0)>>

C1_AtMostOneClaim == []C1_OneHolder /\ [][C1_ClaimStep]_vars

\* Two sessions claimed the same id while the sender created no new entry:
\* one holds the producer, the other was refused.
C1_Witness ==
  /\ HoldsProducer("r1") /\ rtx["r1"] = [s |-> "s1", k |-> 1]
  /\ round["s1"] = 1
  /\ rpc["r2"] = "done" /\ rid["r2"] = rid["r1"] /\ ~HoldsProducer("r2")
  /\ rOut["r2"] = <<ErrFrame(ErrNotFound)>>

\* Every handler that ran for the sender's id has returned.
AllReturned(s) ==
  /\ spc[s] = "done" /\ sid[s] # "none"
  /\ \A r \in Recipients : rid[r] = sid[s] => rpc[r] = "done"

\* C2. Registry cleanliness: once the sender handler and every recipient
\* handler for a transfer id have returned, the registry holds no entry for
\* that id, in this state and in every later one.
C2_RegistryClean ==
  \A s \in Senders : AllReturned(s) => registry[sid[s]] = Absent

\* The payloads of a sequence of frames: a payload is told apart by its
\* stream position and by the epoch in which the client emitted it.
Payloads(fs) == [i \in 1..Len(fs) |-> <<fs[i].pos, fs[i].ep>>]
IsBinary(f) == f.k = "binary"
Delivered(r) == Payloads(SelectSeq(rOut[r], IsBinary))
IsPrefix(a, b) == Len(a) <= Len(b) /\ \A i \in 1..Len(a) : a[i] = b[i]
SentDone(r) == rOut[r] # <<>> /\ rOut[r][Len(rOut[r])].k = "done"

AttachedByResume(r) == HoldsProducer(r) /\ rtx[r].k >= 2

\* C4. Resume fidelity: the binary frames delivered to a recipient that
\* attached with resume_offset O are the sender's stream from O onward, in
\* order, each emitted after the sender client received the `resume` of this
\* attachment; no frame emitted before that is delivered to the new recipient.
C4_ResumeFidelity ==
  \A r \in Recipients :
    AttachedByResume(r) =>
      \A i \in 1..Len(Delivered(r)) : Delivered(r)[i] = <<roff[r] + i - 1, rtx[r].k>>

\* The step in which a sender session registers: it generates its id and
\* inserts the WaitingForRecipient entry.
Registers(s) == spc[s] = "init" /\ spc'[s] = "wait"

\* The sender session holds an id and has not returned.
Live(s) == spc[s] \in {"wait", "relay", "blocked", "rewait"}

\* C5. Id uniqueness on registration: the insert of a registering sender never
\* replaces an entry already present under the generated id, the id is not the
\* id of another live sender session, and the one-shot of every other sender
\* is left as it was.
C5_RegistersFresh ==
  \A s \in Senders :
    Registers(s) =>
      /\ registry[sid'[s]] = Absent
      /\ \A o \in Senders \ {s} : Live(o) => sid[o] # sid'[s] /\ os'[o] = os[o]

C5_IdUniqueness == [][C5_RegistersFresh]_vars

\* C6. Metadata precedence: on every recipient socket the first frame the
\* relay writes is `metadata` or `error`, and every binary frame comes after a
\* `metadata` frame.
C6_MetadataFirst ==
  \A r \in Recipients :
    /\ rOut[r] # <<>> => rOut[r][1].k \in {"metadata", "error"}
    /\ \A i \in 1..Len(rOut[r]) :
         rOut[r][i].k = "binary" => \E j \in 1..(i - 1) : rOut[r][j].k = "metadata"

\* A recipient socket on which `metadata` was followed by a binary frame,
\* and another on which the first frame is an `error`.
C6_Witness ==
  \E r, q \in Recipients :
    /\ Len(rOut[r]) >= 2 /\ rOut[r][1].k = "metadata" /\ rOut[r][2].k = "binary"
    /\ rOut[q] # <<>> /\ rOut[q][1].k = "error"

\* The kinds of the frames written to the sender socket, in order.
Kinds(s) == [i \in 1..Len(sOut[s]) |-> sOut[s][i].k]

\* The frame at i answers a `paused`: of the paused / resume / cancelled
\* frames before it, the last one is a `paused`.
AnswersPaused(ks, i) ==
  \E j \in 1..(i - 1) :
    /\ ks[j] = "paused"
    /\ \A m \in (j + 1)..(i - 1) : ks[m] \notin {"paused", "resume", "cancelled"}

\* C7. Sender control-frame ordering: on every sender socket `start` comes
\* after `ready`, and every `resume` and every `cancelled` comes after a
\* `paused` that no `resume` or `cancelled` has answered yet, round after round.
C7_ControlOrder ==
  \A s \in Senders :
    \A i \in 1..Len(sOut[s]) :
      /\ Kinds(s)[i] = "start" => \E j \in 1..(i - 1) : Kinds(s)[j] = "ready"
      /\ Kinds(s)[i] \in {"resume", "cancelled"} => AnswersPaused(Kinds(s), i)

\* Two reconnect rounds on one sender socket: the first answered by `resume`,
\* the second by `cancelled`.
C7_Witness ==
  \E s \in Senders :
    Kinds(s) = <<"ready", "start", "paused", "resume", "paused", "cancelled">>

\* No frame of the given kinds is followed by another frame.
TerminalIn(fs, kinds) == \A i \in 1..(Len(fs) - 1) : fs[i].k \notin kinds

\* C8. Terminal frames: on a recipient socket nothing is written after `done`
\* or `error`; on a sender socket no control frame is written after `error`
\* or `cancelled`.
C8_TerminalFrames ==
  /\ \A r \in Recipients : TerminalIn(rOut[r], {"done", "error"})
  /\ \A s \in Senders : TerminalIn(sOut[s], {"error", "cancelled"})

\* Both handlers have returned: the recipient's last frame, after metadata,
\* is an `error`, and the sender's last frame is `cancelled`.
C8_Witness ==
  \E r \in Recipients, s \in Senders :
    /\ rpc[r] = "done" /\ Len(rOut[r]) >= 2 /\ rOut[r][Len(rOut[r])].k = "error"
    /\ spc[s] = "done" /\ sOut[s] # <<>> /\ sOut[s][Len(sOut[s])].k = "cancelled"

\* The sender client has not closed its socket.
StillConnected(s) == cst[s] # "closed"

\* The sender's last frame gives up the round that the recipient answered.
CancelledFor(r) ==
  LET s == rtx[r].s IN
    /\ round[s] = rtx[r].k
    /\ sOut[s] # <<>> /\ sOut[s][Len(sOut[s])].k = "cancelled"

\* C9. Reconnect inside the window succeeds: when a recipient took the
\* Reconnecting entry before the reconnect sleep completed and the sender
\* client has not closed, the sender is not sent `cancelled` for that round
\* and the recipient is not sent an error.
C9_ReconnectInWindow ==
  \A r \in Recipients :
    early[r] /\ StillConnected(rtx[r].s) =>
      /\ ~CancelledFor(r)
      /\ \A i \in 1..Len(rOut[r]) : rOut[r][i].k # "error"

\* The reconnect sleep of the sender's current round completed while no
\* recipient link had been published.
TimedOut(s) == lapsed[s] > 0 /\ lapsed[s] = round[s]

\* C10. Reconnect timeout: when the reconnect sleep completes and no
\* recipient link has been published, the relay does not restart: the sender
\* stays in the reconnect wait until its session ends, and the session ends
\* with `cancelled`, error 'Recipient disconnected', as its last frame.
C10_TimeoutCancels ==
  \A s \in Senders :
    TimedOut(s) =>
      /\ spc[s] \in {"rewait", "done"}
      /\ spc[s] = "done" =>
           sOut[s][Len(sOut[s])] = Frame("cancelled", ErrRecipientGone, 0, 0)

\* The step in which a relaying sender session ends.
EndsRelay(s) == spc[s] \in {"relay", "blocked"} /\ spc'[s] = "done"

\* C11. Recipient drop opens a reconnect: a relaying sender session whose
\* client is still connected does not end while the recipient it is attached
\* to has disconnected without having been sent `done`; it moves to the
\* reconnect wait instead.
C11_NoEndAfterDrop ==
  \A s \in Senders :
    EndsRelay(s) /\ StillConnected(s) => rpc[att[s]] # "done"

C11_DropOpensReconnect == [][C11_NoEndAfterDrop]_vars

\* The relay takes a message off the sender socket (the client only adds).
Reads(s) == Len(sIn'[s]) < Len(sIn[s])

\* A text message that is not metadata: malformed JSON, or a field missing.
Malformed(f) == f.k = "badtext"

\* C12. Malformed handshake: when the first text message on a sender socket
\* does not parse as metadata, the relay writes one `error` frame and returns
\* without touching the registry; a socket whose first frame is that `error`
\* carries nothing else, no `ready`, and its handler never registered an id.
C12_RejectStep ==
  \A s \in Senders :
    spc[s] = "init" /\ Reads(s) /\ Malformed(Head(sIn[s])) =>
      /\ sOut'[s] = <<ErrFrame(ErrInvalid)>>
      /\ spc'[s] = "done"
      /\ registry' = registry

C12_Rejected ==
  \A s \in Senders :
    sOut[s] # <<>> /\ sOut[s][1].k = "error" =>
      /\ sOut[s] = <<ErrFrame(ErrInvalid)>>
      /\ spc[s] = "done" /\ sid[s] = "none" /\ round[s] = 0

C12_MalformedHandshake == []C12_Rejected /\ [][C12_RejectStep]_vars

\* A handshake was rejected and the registry is empty.
C12_Witness ==
  /\ sOut["s1"] = <<ErrFrame(ErrInvalid)>> /\ spc["s1"] = "done"
  /\ \A i \in Ids : registry[i] = Absent

\* The sender relays to the recipient, whose socket is open, and the `done`
\* of the sender client, which keeps its socket open, is on its way to the
\* relay behind the binary frames.
DoneEmitted(s, r) ==
  /\ spc[s] \in {"relay", "blocked"} /\ att[s] = r
  /\ \E i \in 1..Len(sIn[s]) : sIn[s][i].k = "done"
  /\ cst[s] # "closed" /\ rsock[r] = "open"

\* The recipient was sent the frames the relay read for it, all of them
\* emitted for this attachment, then `done`; the sender session has ended.
Completed(s, r) ==
  /\ SentDone(r) /\ Delivered(r) = Payloads(pumped[r])
  /\ \A i \in 1..Len(Delivered(r)) : Delivered(r)[i][2] = rtx[r].k
  /\ spc[s] = "done"

SenderReturns(s) == spc[s] # "done" /\ spc'[s] = "done" /\ sid[s] # "none"

\* C14. Sender exit releases its entry: at the moment handle_sender returns,
\* on whichever exit path, the registry holds no WaitingForRecipient,
\* Reconnecting or Active entry under its id.
C14_ReleasedAtReturn ==
  \A s \in Senders :
    SenderReturns(s) =>
      registry'[sid[s]].st \notin {"Waiting", "Reconnecting", "Active"}

C14_SenderExitReleases == [][C14_ReleasedAtReturn]_vars

\* A sender that had registered returned from the reconnect wait, and its
\* id is absent from the registry.
C14_Witness ==
  /\ spc["s1"] = "done" /\ sid["s1"] # "none" /\ round["s1"] = 2
  /\ registry[sid["s1"]] = Absent

\* C15. A failed claim changes nothing: a claim that finds no entry, or an
\* entry that is Active or Done, leaves the registry exactly as it was.
C15_FailedClaimStep ==
  \A r \in Recipients :
    Claims(r) /\ ~Claimable(registry[rid'[r]]) => registry' = registry

C15_FailedClaimKeepsRegistry == [][C15_FailedClaimStep]_vars

\* The sender has dropped the consumer of the one-shot whose producer the
\* recipient holds.
ConsumerGone(r) ==
  HoldsProducer(r) /\ ~(round[rtx[r].s] = rtx[r].k /\ os[rtx[r].s] = "open")

\* C16. Publish failure: when the recipient publishes its link after the
\* sender dropped the one-shot consumer, the recipient is sent `error`
\* 'Sender disconnected' and its session ends there, without entering the
\* pump and without putting any entry into the registry.
C16_PublishFailStep ==
  \A r \in Recipients :
    rpc[r] = "publish" /\ ConsumerGone(r) /\ rpc'[r] # "publish" =>
      /\ rOut'[r] = Append(rOut[r], ErrFrame(ErrSenderGone))
      /\ rpc'[r] = "done"
      /\ registry' = registry

C16_PublishFailure == [][C16_PublishFailStep]_vars

\* A recipient took an entry, failed to publish and returned: it was sent
\* metadata and the error, and its id is absent from the registry.
C16_Witness ==
  \E r \in Recipients :
    /\ rpc[r] = "done" /\ ConsumerGone(r)
    /\ rOut[r] = WritesMetadata([meta |-> "s1"]) \o <<ErrFrame(ErrSenderGone)>>
    /\ registry[rid[r]] = Absent

\* C17. Non-text first message: when the first message the handler reads on
\* a sender socket is neither text nor a close, the handler returns there,
\* having written nothing and inserted nothing, so that no later message on
\* the socket registers a transfer.
C17_AbortStep ==
  \A s \in Senders :
    /\ spc[s] = "init" /\ Reads(s)
    /\ ~IsText(Head(sIn[s])) /\ ~IsClose(Head(sIn[s]))
    => /\ spc'[s] = "done"
       /\ sOut'[s] = <<>>
       /\ registry' = registry

C17_NonTextAborts == [][C17_AbortStep]_vars

\* A binary frame or Data message that the client emitted before the relay
\* wrote `start`.
IsEarly(f) == f.k \in {"binary", "Data"} /\ f.ep = 0

\* C18. No early forwarding: a binary frame that arrived on the sender socket
\* before the relay wrote `start` is never put on a data queue and never
\* written to a recipient socket, whenever the relay reads it. (After the
\* relay has consumed `done` it reads nothing more.)
C18_NoEarlyForwarding ==
  \A r \in Recipients :
    /\ \A i \in 1..Len(dq[r]) : ~IsEarly(dq[r][i])
    /\ \A i \in 1..Len(rOut[r]) : ~IsEarly(rOut[r][i])

\* The sender relays to the recipient, whose socket is open, and the close of
\* the sender socket is on its way to the relay, with no `done` ahead of it,
\* read or unread.
CloseEmitted(s, r) ==
  /\ spc[s] \in {"relay", "blocked"} /\ att[s] = r
  /\ \E i \in 1..Len(sIn[s]) : sIn[s][i].k = "close"
  /\ \A i \in 1..Len(sIn[s]) : sIn[s][i].k # "done"
  /\ pend[s].k # "Finished"
  /\ rsock[r] = "open"

\* The recipient was sent metadata, every frame the relay read for it, in
\* order, and one `error` 'Sender disconnected'; both sessions have ended.
Propagated(s, r) ==
  /\ rpc[r] = "done" /\ spc[s] = "done"
  /\ Len(rOut[r]) = Len(pumped[r]) + 2
  /\ Delivered(r) = Payloads(pumped[r])
  /\ rOut[r][Len(rOut[r])] = ErrFrame(ErrSenderGone)

\* The sender's task returns on the close of its socket: relay_data reads the
\* close, or the send that waited with Error completes.
ReturnsOnClose(s) ==
  /\ SenderReturns(s)
  /\ \/ spc[s] = "relay" /\ Reads(s) /\ IsClose(Head(sIn[s]))
     \/ spc[s] = "blocked" /\ pend[s].k = "Error"

\* The return on a close leaves the id absent from the registry (removed, not
\* Done), and what it put on the queue of a live recipient is one
\* Error('Sender disconnected') behind the Data already there.
C19_CloseStep ==
  \A s \in Senders :
    ReturnsOnClose(s)
    => /\ registry'[sid[s]] = Absent
       /\ RxAlive(att[s])
          => dq'[att[s]] = Append(dq[att[s]], Frame("Error", ErrSenderGone, 0, 0))

\* C19. Sender disconnect propagation: when the sender socket closes while a
\* recipient is attached, the sender's return removes the entry for the id
\* (it is not marked Done) and queues Error('Sender disconnected') behind the
\* Data already queued; and under fair scheduling, unless the recipient
\* closes, the recipient is eventually sent every Data frame in order, then
\* exactly one `error` 'Sender disconnected', and its session ends.
C19_DisconnectPropagates ==
  /\ [][C19_CloseStep]_vars
  /\ \A s \in Senders, r \in Recipients :
       CloseEmitted(s, r) ~> (Propagated(s, r) \/ rsock[r] = "closed")

\* A recipient that was sent a frame and then the `error`, after the sender
\* closed mid-relay.
C19_Witness ==
  \E s \in Senders, r \in Recipients :
    /\ Propagated(s, r)
    /\ pumped[r] # <<>>
    /\ cst[s] = "closed" /\ rsock[r] # "closed"

\* The relay reads the close of the sender socket while relaying.
ReadsCloseRelaying(s) ==
  spc[s] = "relay" /\ Reads(s) /\ IsClose(Head(sIn[s]))

\* The step that reads the close is the step on which the sender's task
\* returns, whatever the queue holds.
C20_CloseStep ==
  \A s \in Senders :
    ReadsCloseRelaying(s) => spc'[s] = "done"

\* C20. Non-blocking close: when the sender socket closes during the relay,
\* the pump offers Error('Sender disconnected') without waiting and returns
\* sender-disconnected at once; with a full data queue it still returns,
\* without the recipient consuming or dropping anything.
C20_CloseNeverWaits == [][C20_CloseStep]_vars

\* The pump's send of a Data frame waits on a full queue.
DataSendBlocked(s) == spc[s] = "blocked" /\ pend[s].k = "Data"

\* While the send of a Data frame waits, the pump takes nothing from the
\* sender socket: the socket's backlog only grows.
C21_BlockedReadsNothing ==
  \A s \in Senders :
    DataSendBlocked(s) => IsPrefix(sIn[s], sIn'[s])

\* No data queue holds more than its capacity.
C21_QueueBound == \A r \in Recipients : Len(dq[r]) <= QueueCap

\* C21. Backpressure bound: a data queue never holds more than its capacity
\* (CHANNEL_BUFFER) of RelayMessages, and while the pump's send of a Data
\* frame is blocked on a full queue the pump reads no further frame from the
\* sender socket; the relay holds at most the queued frames plus the one
\* being sent.
C21_Backpressure == []C21_QueueBound /\ [][C21_BlockedReadsNothing]_vars

\* The queue is full and the pump waits with one more Data frame in hand,
\* while the next frame of the sender is unread on the socket.
C21_Witness ==
  \E s \in Senders :
    /\ DataSendBlocked(s)
    /\ Len(dq[att[s]]) = QueueCap
    /\ sIn[s] # <<>>

\* One sweep: an entry in state Done is gone afterwards, and every other
\* entry, with its metadata and its one-shot producer, is as it was.
C22_SweepStep ==
  \A i \in Ids :
    /\ registry[i].st = "Done" => registry'[i] = Absent
    /\ registry[i].st # "Done" => registry'[i] = registry[i]

\* C22. Cleaner sweep: each sweep removes exactly the entries whose state is
\* Done and leaves every entry in WaitingForRecipient, Reconnecting or Active
\* present and unchanged; the one-shot producer held by a non-terminal entry
\* is never dropped.
C22_CleanerSweep == [][C22_SweepStep]_vars

\* A registry on which the sweep acts: it removes a Done entry and keeps a
\* waiting entry with its producer.
C22_Witness ==
  \E i, j \in Ids :
    /\ registry[i] = Done /\ registry[j].st \in {"Waiting", "Reconnecting"}
    /\ Sweep(registry)[i] = Absent
    /\ Sweep(registry)[j] = registry[j] /\ registry[j].tx # NoTx

\* The step in which the sender leaves the reconnect wait with a link.
Resumes(s) == spc[s] = "rewait" /\ spc'[s] = "relay"

\* The recipient whose claim took the entry of the sender's current round.
TookRound(r, s) == rtx[r] = [s |-> s, k |-> round[s]]

\* The frame written on that step is `resume` whose offset is the
\* resume_offset of the recipient that took the Reconnecting entry.
C23_ResumeStep ==
  \A s \in Senders :
    Resumes(s)
    => \E r \in Recipients :
         /\ TookRound(r, s)
         /\ sOut'[s] = Append(sOut[s], Frame("resume", "", roff[r], 0))

\* C23. Resume offset is forwarded verbatim: on every reconnect the `offset`
\* of the `resume` frame written to the sender equals the resume_offset
\* supplied by the recipient whose claim took the Reconnecting entry, with
\* no clamping or validation against what was already relayed.
C23_OffsetVerbatim == [][C23_ResumeStep]_vars

\* A `resume` that carries an offset beyond anything the relay has read from
\* the sender: no frame was relayed, the recipient supplied MaxOffset.
C23_Witness ==
  \E s \in Senders, r \in Recipients :
    /\ att[s] = r /\ TookRound(r, s) /\ round[s] > 1
    /\ roff[r] = MaxOffset /\ MaxOffset > 0
    /\ \A q \in Recipients : pumped[q] = <<>>
    /\ sOut[s] # <<>>
    /\ sOut[s][Len(sOut[s])] = Frame("resume", "", MaxOffset, 0)

\* A claim of an id whose entry is WaitingForRecipient or Reconnecting
\* succeeds: the recipient goes on to publish, holding the producer of the
\* one-shot that entry carried, and the entry has left the registry.
C24_ClaimSucceeds ==
  \A r \in Recipients :
    Claims(r) /\ registry[rid'[r]].st \in {"Waiting", "Reconnecting"}
    => /\ rpc'[r] = "publish"
       /\ rtx'[r] = registry[rid'[r]].tx
       /\ registry'[rid'[r]] = Absent

\* Each put of Reconnecting stores the producer of a one-shot that no
\* recipient holds.
C24_FreshOneShot ==
  \A s \in Senders :
    spc[s] # "rewait" /\ spc'[s] = "rewait"
    => /\ registry'[sid[s]] = Reconnecting(smeta[s], s, round'[s])
       /\ \A r \in Recipients : rtx[r] # [s |-> s, k |-> round'[s]]

\* The link a sender receives was published by the recipient that took the
\* entry of the sender's current round.
C24_ReceivedInOwnRound ==
  \A s \in Senders :
    att[s] = NoRecipient /\ att'[s] # NoRecipient
    => rtx[att'[s]] = [s |-> s, k |-> round[s]] /\ round'[s] = round[s]

\* C24. Repeated claims across reconnects: a claim of a WaitingForRecipient
\* entry and, after the drop and the sender's put of Reconnecting, a claim of
\* the Reconnecting entry both succeed, round after round while the sender
\* stays connected; each round stores a fresh one-shot, and the link a
\* sender receives comes from the recipient that took that round's entry.
C24_RepeatedClaims ==
  /\ [][C24_ClaimSucceeds]_vars
  /\ [][C24_FreshOneShot]_vars
  /\ [][C24_ReceivedInOwnRound]_vars

\* Two sequential claims: the first recipient took the WaitingForRecipient
\* entry and has dropped, the second took the Reconnecting entry and is the
\* one the sender now relays to.
C24_Witness ==
  \E s \in Senders, r, q \in Recipients :
    /\ rtx[r] = [s |-> s, k |-> 1] /\ rpc[r] = "done"
    /\ rtx[q] = [s |-> s, k |-> 2] /\ round[s] = 2
    /\ att[s] = q /\ spc[s] = "relay"

\* The sender is in the reconnect wait and stays in it over the step.
StaysInWait(s) == spc[s] = "rewait" /\ spc'[s] = "rewait"

\* The sleep is armed on entry to the wait; while the wait lasts it only
\* moves from running to completed, whatever the sender task reads or sends.
C25_SleepStep ==
  \A s \in Senders :
    /\ spc[s] # "rewait" /\ spc'[s] = "rewait" => timer'[s] = "running"
    /\ StaysInWait(s)
       => \/ timer'[s] = timer[s]
          \/ timer[s] = "running" /\ timer'[s] = "fired"

\* C25. The reconnect timer is absolute: it is started once on entry to the
\* reconnect wait and is neither restarted nor extended by frames from the
\* sender or by ping ticks handled during the wait; once it has completed,
\* the wait ends, under fair scheduling, whatever traffic arrives.
C25_AbsoluteTimer ==
  /\ [][C25_SleepStep]_vars
  /\ \A s \in Senders :
       (spc[s] = "rewait" /\ timer[s] = "fired") ~> (spc[s] # "rewait")

\* The sleep has completed in a wait during which the sender task read every
\* frame the client emitted: relay_data read none of them.
C25_Witness ==
  \E s \in Senders :
    /\ spc[s] = "rewait" /\ timer[s] = "fired"
    /\ emitted[s] = MaxFrames /\ sIn[s] = <<>>
    /\ \A r \in Recipients : pumped[r] = <<>>

\* The sender waits for a link: REGISTERED or AWAITING_RECONNECT.
IdleWait(s) == spc[s] \in {"wait", "rewait"}

\* The sender task takes one frame, not a close, off its socket and keeps
\* the socket: the client's end is as it was and the rest of the backlog is
\* still there.
ReadsAndGoesOn(s) ==
  /\ sIn[s] # <<>> /\ Head(sIn[s]).k # "close"
  /\ sIn'[s] = Tail(sIn[s]) /\ cst'[s] = cst[s]

\* No branch of the wait's select is ready but the socket, whose next frame
\* is not a close; the socket's backlog shrinks.
OnlyFrameReady(s) ==
  /\ sIn[s] # <<>> /\ Head(sIn[s]).k # "close"
  /\ os[s] = "open" /\ timer[s] # "fired"
  /\ Reads(s)

\* Reading such a frame in an idle wait takes that one frame and changes
\* nothing else: not the session, the registry, a queue or any socket.
C26_IdleReadStep ==
  \A s \in Senders :
    IdleWait(s) /\ (ReadsAndGoesOn(s) \/ OnlyFrameReady(s))
    => /\ sIn'[s] = Tail(sIn[s])
       /\ UNCHANGED <<registry, senderVars, sOut, cIn, dq, dtx, csig, rOut, rpc>>

\* C26. Idle-wait frame effect: while the sender session is REGISTERED or
\* AWAITING_RECONNECT, reading any inbound sender frame other than a close
\* (pong, binary, any text, {"type":"done"} included) changes neither the
\* session state nor the registry entry nor any queue, and writes nothing to
\* any socket.
C26_IdleFrameEffect == [][C26_IdleReadStep]_vars

\* The reconnect wait goes on after the sender task has read the frames the
\* client emitted, {"type":"done"} included; the entry is still Reconnecting.
C26_Witness ==
  \E s \in Senders :
    /\ spc[s] = "rewait" /\ registry[sid[s]].st = "Reconnecting"
    /\ cst[s] = "finished" /\ emitted[s] > 0 /\ sIn[s] = <<>>
    /\ \A r \in Recipients : pumped[r] = <<>>

\* The recipient has published its link and holds the consumer end of its
\* data queue.
Linked(r) == rpc[r] \in {"mark", "pump"}

\* The sender's pump holds the producer end of the recipient's queue.
PumpHolds(s, r) == att[s] = r /\ spc[s] \in {"relay", "blocked"}

\* The recipient's link sits in the sender's one-shot, not yet received.
InOneShot(s, r) ==
  os[s] = "sent" /\ oslink[s] = r /\ spc[s] \in {"wait", "rewait"}

\* The senders that hold, or are about to receive, the producer of r's queue.
HoldersOf(r) == {s \in Senders : PumpHolds(s, r) \/ InOneShot(s, r)}

\* The recipients whose consumer end is alive while s holds their producer.
AttachedTo(s) == {r \in Recipients : Linked(r) /\ dtx[r] /\ s \in HoldersOf(r)}

\* A live producer of a linked recipient's queue has one holder: the session
\* of the sender whose entry the recipient took, under the recipient's id;
\* and a sender holds the producer of at most one such recipient.
C27_OneHolder ==
  /\ \A r \in Recipients :
       Linked(r) /\ dtx[r]
       => /\ HoldersOf(r) = {rtx[r].s}
          /\ sid[rtx[r].s] = rid[r]
  /\ \A s \in Senders :
       /\ Cardinality(AttachedTo(s)) <= 1
       /\ att[s] # NoRecipient => os[s] # "sent"

\* A data queue grows by one message at its tail, on a step of the pump that
\* holds its producer.
C27_OneWriter ==
  \A r \in Recipients :
    Len(dq'[r]) > Len(dq[r])
    => /\ \E s \in Senders : PumpHolds(s, r) /\ rtx[r].s = s
       /\ dq'[r] = Append(dq[r], dq'[r][Len(dq'[r])])

\* C27. Single attachment: in every reachable state the producer end of an
\* attached recipient's data queue is held by exactly one session, the
\* sender of the recipient's transfer id; a sender never holds producers for
\* two recipients at once; and a data queue has the sender pump as its only
\* writer.
C27_SingleAttachment == []C27_OneHolder /\ [][C27_OneWriter]_vars

\* The second recipient is attached and has a message of the pump in its
\* queue, after the first recipient's attachment ended.
C27_Witness ==
  \E s \in Senders, r, q \in Recipients :
    /\ r # q /\ rpc[q] = "done" /\ rtx[q].s = s
    /\ AttachedTo(s) = {r} /\ PumpHolds(s, r)
    /\ dq[r] # <<>>

\* The pump waits to send a Data frame to a recipient whose session has
\* ended.
BlockedOnGone(s) == DataSendBlocked(s) /\ rpc[att[s]] = "done"

\* When that wait ends, the send has failed: the pump returns
\* recipient-disconnected and the sender opens the reconnect wait.
C28_FailedSendStep ==
  \A s \in Senders :
    BlockedOnGone(s) /\ spc'[s] # "blocked"
    => /\ spc'[s] = "rewait"
       /\ registry'[sid[s]].st = "Reconnecting"
       /\ dq' = dq

\* C28. No stuck pump: if the attached recipient session ends while the
\* sender pump is blocked sending a Data frame on a full queue, then under
\* fair scheduling the send fails and the pump exits with
\* recipient-disconnected; the sender never stays blocked on a queue whose
\* consumer is gone.
C28_NoStuckPump ==
  /\ [][C28_FailedSendStep]_vars
  /\ \A s \in Senders : BlockedOnGone(s) ~> (spc[s] = "rewait")

\* The recipient closed and its session ended while the pump was waiting
\* with a Data frame in hand.
C28_Witness ==
  \E s \in Senders :
    /\ BlockedOnGone(s)
    /\ rsock[att[s]] = "closed"
    /\ pumped[att[s]] # <<>>

\* C29. No entry is ever stored in state Done: the handlers put only
\* WaitingForRecipient, Reconnecting or Active and end a transfer by removing
\* the entry, so in every reachable state the cleaner's sweep removes nothing:
\* an entry left in a non-terminal state goes only when a handler removes it.
C29_NeverDone ==
  /\ \A i \in Ids : registry[i].st \in {"Absent", "Waiting", "Reconnecting", "Active"}
  /\ Sweep(registry) = registry

\* Every handler has returned and an entry is still in the registry, Active:
\* the sweep leaves it there.
C29_Witness ==
  /\ \A s \in Senders : spc[s] \in {"absent", "done"}
  /\ \A r \in Recipients : rpc[r] = "done"
  /\ \E i \in Ids : registry[i] = Active /\ Sweep(registry)[i] = Active

\* The step on which download_blob answers.
Answers == resp = "none" /\ resp' # "none"

\* The manifest file of the id holds a manifest that is marked complete and
\* has received all its bytes.
StagedComplete ==
  /\ disk.manifest.kind = "manifest"
  /\ disk.manifest.complete
  /\ disk.manifest.received_size = disk.manifest.size

\* The answer is 200 exactly when the manifest exists, is complete and
\* expires strictly after now, and 404 otherwise; a complete manifest that
\* has expired is deleted with the chunk files, and nothing else is touched.
C30_AnswerStep ==
  Answers
  => /\ resp' = IF StagedComplete /\ disk.manifest.expires_at_unix > now
                THEN "200" ELSE "404"
     /\ disk' = IF StagedComplete /\ disk.manifest.expires_at_unix <= now
                THEN EmptyDisk ELSE disk

\* C30. Staged download gating: download_blob serves a body only when the
\* manifest for the id exists, is marked complete, has received_size equal
\* to size and has expires_at_unix strictly greater than the current time; in
\* every other case it answers 404, and when the manifest is complete but
\* expired it also deletes the transfer's manifest and chunk files.
C30_DownloadGating == [][C30_AnswerStep]_vars

\* A complete transfer was asked for in the last second before it expires:
\* the answer is 200 and its files are still there.
C30_Witness ==
  /\ resp = "200" /\ StagedComplete /\ disk.chunks
  /\ disk.manifest.size > 0
  /\ now > 0 /\ disk.manifest.expires_at_unix = now + 1

====
